---- MODULE Spec2Model ----
(***************************************************************************)
(* A model of NEODatabase (src/database.py): the constructor that indexes  *)
(* the near-Earth objects and links them with their close approaches, the  *)
(* two point lookups, the lazy query generator and the _check_filters      *)
(* generator with its key -> (value, operator) table.                      *)
(*                                                                         *)
(* Objects of the Python heap are identified by their position in the      *)
(* collection handed to the constructor: a NearEarthObject is an index of  *)
(* neos, a CloseApproach an index of approaches.  A reference to a         *)
(* NearEarthObject is such an index, or NoneRef.                           *)
(***************************************************************************)
EXTENDS Integers, Sequences, FiniteSets, TLC

\* Bounds of the model.
MaxNeos == 2
MaxApproaches == 2
MaxFilters == 2
MaxFilterKeys == 2

VARIABLES
    neos,            \* self._neos: the NearEarthObjects (attributes other than .approaches)
    approaches,      \* self._approaches: the CloseApproaches (attributes other than .neo)
    neo_approaches,  \* neo.approaches of every NearEarthObject
    approach_neo,    \* approach.neo of every CloseApproach
    name_to_neo,     \* self.name_to_neo
    pdes_to_neo,     \* self.pdes_to_neo
    approach_to_des, \* self.approach_to_des
    pc,              \* "new" before the constructor ran, then "ready" or "raised"
    ret,             \* outcome of the most recent call
    q,               \* the generator object returned by query()
    cf               \* the generator object returned by _check_filters()

vars == <<neos, approaches, neo_approaches, approach_neo, name_to_neo,
          pdes_to_neo, approach_to_des, pc, ret, q, cf>>

(***************************************************************************)
(* Python values.  Every value is a record of one shape, so that values of *)
(* different Python types can be compared and stored side by side.         *)
(***************************************************************************)
None == [type |-> "NoneType", n |-> 0, s |-> ""]
Str(s) == [type |-> "str", n |-> 0, s |-> s]
Flt(n) == [type |-> "float", n |-> n, s |-> ""]
NaN == [type |-> "float", n |-> 0, s |-> "nan"]
Bool(b) == [type |-> "bool", n |-> IF b THEN 1 ELSE 0, s |-> ""]
Date(d) == [type |-> "date", n |-> d, s |-> ""]

\* The absent NearEarthObject reference (Python's None, where a reference is expected).
NoneRef == 0

\* operator.eq, operator.le, operator.ge on values of one type; every
\* comparison with a float nan is False.
eq(a, b) == a # NaN /\ b # NaN /\ a = b
le(a, b) == a # NaN /\ b # NaN /\ a.type = b.type /\ a.n <= b.n
ge(a, b) == a # NaN /\ b # NaN /\ a.type = b.type /\ a.n >= b.n

\* float(x) of a value that already is a float (nan included).
float(x) == IF x.type = "float" THEN x ELSE Flt(x.n)

\* datetime.date(): the calendar day of a timestamp [day, minute].
date(t) == Date(t.day)

\* dict.get(key): the value stored under key, or None.
DictGet(d, key) == IF key \in DOMAIN d THEN d[key] ELSE NoneRef

EmptyDict == [k \in {} |-> NoneRef]

Max(S) == CHOOSE x \in S : \A y \in S : y <= x

SeqsUpTo(S, n) == UNION {[1..k -> S] : k \in 0..n}

(***************************************************************************)
(* Outcomes of calls and the idle generator objects.                       *)
(***************************************************************************)
Ret(op, arg, val, exc) == [op |-> op, arg |-> arg, val |-> val, exc |-> exc]
NoRet == Ret("", None, NoneRef, "")

NoQuery == [state |-> "none", filters |-> <<>>, pos |-> 0, out |-> <<>>]
NoCheck == [state |-> "none", approach |-> 0, filters |-> <<>>, pos |-> 0, out |-> <<>>]

(***************************************************************************)
(* Inputs.                                                                 *)
(***************************************************************************)
Designations == {"a", "b"}
UnknownDesignation == "z"
Names == {None, Str(""), Str("X"), Str("Y")}

SampleTime == [day |-> 1, minute |-> 0]
SampleDistance == Flt(1)
SampleVelocity == Flt(1)

Neo(designation, name, diameter, hazardous) ==
    [designation |-> designation, name |-> name, diameter |-> diameter,
     hazardous |-> hazardous]

Approach(designation, time, distance, velocity) ==
    [designation |-> designation, time |-> time, distance |-> distance,
     velocity |-> velocity]

\* The state before the constructor runs: unlinked collections.
Unlinked(ns, as) ==
    /\ neos = ns
    /\ approaches = as
    /\ neo_approaches = [o \in DOMAIN ns |-> <<>>]
    /\ approach_neo = [e \in DOMAIN as |-> NoneRef]
    /\ name_to_neo = EmptyDict
    /\ pdes_to_neo = EmptyDict
    /\ approach_to_des = EmptyDict
    /\ pc = "new"
    /\ ret = NoRet
    /\ q = NoQuery
    /\ cf = NoCheck

InitDb ==
    \E ns \in SeqsUpTo({Neo(d, n, NaN, Bool(FALSE)) : d \in Designations, n \in Names}, MaxNeos) :
    \E as \in SeqsUpTo({Approach(d, SampleTime, SampleDistance, SampleVelocity) :
                            d \in Designations \cup {UnknownDesignation}}, MaxApproaches) :
        Unlinked(ns, as)

\* Inputs of the query runs: objects with distinct designations, the name
\* fixed by the designation.
NameOf(d) == IF d = "a" THEN Str("X") ELSE None

QueryNeos ==
    {ns \in SeqsUpTo({Neo(d, NameOf(d), NaN, Bool(FALSE)) : d \in Designations}, MaxNeos) :
        \A i, j \in DOMAIN ns : i # j => ns[i].designation # ns[j].designation}

Init ==
    \E ns \in QueryNeos :
    \E as \in SeqsUpTo({Approach(d, SampleTime, SampleDistance, SampleVelocity) :
                            d \in Designations \cup {UnknownDesignation}}, MaxApproaches) :
        Unlinked(ns, as)

\* Inputs of the filter runs: one object and one approach with varied attributes.
FilterNeos ==
    { Neo("a", Str("X"), Flt(1), Bool(TRUE)),
      Neo("a", Str("Y"), Flt(2), Bool(FALSE)),
      Neo("a", None, Flt(3), Bool(FALSE)),
      Neo("a", Str(""), NaN, Bool(TRUE)) }

FilterApproaches ==
    { Approach("a", [day |-> 1, minute |-> 0], Flt(2), Flt(3)),
      Approach("a", [day |-> 2, minute |-> 1], Flt(3), Flt(1)),
      Approach("a", [day |-> 3, minute |-> 0], Flt(1), Flt(2)),
      Approach(UnknownDesignation, [day |-> 2, minute |-> 0], Flt(2), Flt(2)) }

InitFilters ==
    \E n \in FilterNeos : \E a \in FilterApproaches : Unlinked(<<n>>, <<a>>)

(***************************************************************************)
(* NEODatabase.__init__                                                    *)
(***************************************************************************)
\* A faulty variant of BuildNameToNeo: the index is keyed by designation.
BuildNameToNeoByDesignation(ns) ==
    [k \in {Str(ns[i].designation) : i \in DOMAIN ns} |->
        Max({i \in DOMAIN ns : Str(ns[i].designation) = k})]

\* {neo.name: neo for neo in self._neos}: a later neo replaces an earlier one.
BuildNameToNeo(ns) ==
    [k \in {ns[i].name : i \in DOMAIN ns} |-> Max({i \in DOMAIN ns : ns[i].name = k})]

\* {neo.designation: neo for neo in self._neos}
BuildPdesToNeo(ns) ==
    [k \in {ns[i].designation : i \in DOMAIN ns} |->
        Max({i \in DOMAIN ns : ns[i].designation = k})]

\* {approach: approach._designation for approach in self._approaches}
BuildApproachToDes(as) == [e \in DOMAIN as |-> as[e].designation]

get_neo_by_designation(self_pdes_to_neo, designation) ==
    DictGet(self_pdes_to_neo, designation)

get_neo_by_name(self_name_to_neo, name) == DictGet(self_name_to_neo, name)

\* A faulty variant of AppendApproach: the approach is put at the head of the list.
PrependApproach(list, approach) == <<approach>> \o list

\* neo.approaches.append(approach)
AppendApproach(list, approach) == Append(list, approach)

\* The linking loop from its j-th iteration on.  approach.neo is assigned
\* before neo.approaches is dereferenced, which raises AttributeError on None
\* and ends the loop.
RECURSIVE LinkFrom(_, _, _, _, _)
LinkFrom(j, as, pdes, an, na) ==
    IF j > Len(as)
    THEN [approach_neo |-> an, neo_approaches |-> na, exc |-> ""]
    ELSE LET neo == get_neo_by_designation(pdes, as[j].designation)
             an2 == [an EXCEPT ![j] = neo]
         IN  IF neo = NoneRef
             THEN [approach_neo |-> an2, neo_approaches |-> na, exc |-> "AttributeError"]
             ELSE LinkFrom(j + 1, as, pdes, an2,
                           [na EXCEPT ![neo] = AppendApproach(@, j)])

NEODatabase_init ==
    /\ pc = "new"
    /\ name_to_neo' = BuildNameToNeo(neos)
    /\ pdes_to_neo' = BuildPdesToNeo(neos)
    /\ approach_to_des' = BuildApproachToDes(approaches)
    /\ LET linked == LinkFrom(1, approaches, pdes_to_neo', approach_neo, neo_approaches)
       IN  /\ approach_neo' = linked.approach_neo
           /\ neo_approaches' = linked.neo_approaches
           /\ pc' = IF linked.exc = "" THEN "ready" ELSE "raised"
           /\ ret' = Ret("__init__", None, NoneRef, linked.exc)
    /\ UNCHANGED <<neos, approaches, q, cf>>

(***************************************************************************)
(* Point lookups.                                                          *)
(***************************************************************************)
LookupDesignations == Designations \cup {UnknownDesignation}
LookupNames == Names \cup {Str("Z")}

CallGetNeoByDesignation ==
    /\ pc = "ready"
    /\ \E d \in LookupDesignations :
        ret' = Ret("get_neo_by_designation", Str(d),
                   get_neo_by_designation(pdes_to_neo, d), "")
    /\ UNCHANGED <<neos, approaches, neo_approaches, approach_neo, name_to_neo,
                   pdes_to_neo, approach_to_des, pc, q, cf>>

CallGetNeoByName ==
    /\ pc = "ready"
    /\ \E n \in LookupNames :
        ret' = Ret("get_neo_by_name", n, get_neo_by_name(name_to_neo, n), "")
    /\ UNCHANGED <<neos, approaches, neo_approaches, approach_neo, name_to_neo,
                   pdes_to_neo, approach_to_des, pc, q, cf>>

NextDb ==
    \/ NEODatabase_init
    \/ CallGetNeoByDesignation
    \/ CallGetNeoByName

SpecDb == InitDb /\ [][NextDb]_vars

(***************************************************************************)
(* NEODatabase.query: a generator.  A filter is a callable from an         *)
(* approach to a boolean, given by the set of approaches it accepts.       *)
(* Calling query() runs no code of its body; each next() runs the body up  *)
(* to the following yield or to its end (StopIteration).  A run follows one *)
(* generator: a later call of query() would start from the same, unchanged *)
(* database and pass through the same generator states.                     *)
(***************************************************************************)
Predicates == SUBSET (DOMAIN approaches)

\* f(approach)
Call(f, approach) == approach \in f

\* A faulty variant of AllFilters: any(f(approach) for f in filters).
AnyFilter(filters, approach) ==
    \E k \in DOMAIN filters : Call(filters[k], approach)

\* all(f(approach) for f in filters)
AllFilters(filters, approach) ==
    \A k \in DOMAIN filters : Call(filters[k], approach)

\* The approaches after position pos that the loop of the taken branch yields.
Yieldable(filters, pos) ==
    IF filters = <<>>
    THEN {e \in DOMAIN approaches : e > pos}
    ELSE {e \in DOMAIN approaches : e > pos /\ AllFilters(filters, e)}

Min(S) == CHOOSE x \in S : \A y \in S : x <= y

query ==
    /\ pc = "ready"
    /\ q.state = "none"
    /\ \E filters \in SeqsUpTo(Predicates, MaxFilters) :
        q' = [state |-> "created", filters |-> filters, pos |-> 0, out |-> <<>>]
    /\ ret' = Ret("query", None, NoneRef, "")
    /\ UNCHANGED <<neos, approaches, neo_approaches, approach_neo, name_to_neo,
                   pdes_to_neo, approach_to_des, pc, cf>>

\* A faulty variant of QueryNext: a yielded approach shortens the collection.
QueryNextDraining ==
    /\ pc = "ready"
    /\ q.state \in {"created", "suspended"}
    /\ Yieldable(q.filters, q.pos) # {}
    /\ LET e == Min(Yieldable(q.filters, q.pos))
       IN  /\ q' = [q EXCEPT !.state = "suspended", !.pos = e, !.out = Append(@, e)]
           /\ ret' = Ret("next", None, e, "")
           /\ approaches' = SubSeq(approaches, 1, Len(approaches) - 1)
    /\ UNCHANGED <<neos, neo_approaches, approach_neo, name_to_neo,
                   pdes_to_neo, approach_to_des, pc, cf>>

\* next() on the generator.
QueryNext ==
    /\ pc = "ready"
    /\ q.state \in {"created", "suspended"}
    /\ IF Yieldable(q.filters, q.pos) # {}
       THEN LET e == Min(Yieldable(q.filters, q.pos))
            IN  /\ q' = [q EXCEPT !.state = "suspended", !.pos = e, !.out = Append(@, e)]
                /\ ret' = Ret("next", None, e, "")
       ELSE /\ q' = [q EXCEPT !.state = "done", !.pos = Len(approaches)]
            /\ ret' = Ret("next", None, NoneRef, "StopIteration")
    /\ UNCHANGED <<neos, approaches, neo_approaches, approach_neo, name_to_neo,
                   pdes_to_neo, approach_to_des, pc, cf>>

\* The consumer drops the generator before it is exhausted.
QueryAbandon ==
    /\ pc = "ready"
    /\ q.state \in {"created", "suspended"}
    /\ q' = [q EXCEPT !.state = "closed"]
    /\ ret' = Ret("close", None, NoneRef, "")
    /\ UNCHANGED <<neos, approaches, neo_approaches, approach_neo, name_to_neo,
                   pdes_to_neo, approach_to_des, pc, cf>>

Next ==
    \/ NEODatabase_init
    \/ CallGetNeoByDesignation
    \/ CallGetNeoByName
    \/ query
    \/ QueryNext
    \/ QueryAbandon

Spec == Init /\ [][Next]_vars

(***************************************************************************)
(* NEODatabase._check_filters: a generator.  filters is a dict, given as   *)
(* the sequence of its items in iteration order.  The body does not read   *)
(* self.  The first next() builds the table (which dereferences            *)
(* approach.neo) and enters the loop over the keys; every next() runs to   *)
(* the following yield, to a raise or to the end of the loop.  Since self   *)
(* is not read, the approach may be any CloseApproach the caller holds: one *)
(* the constructor linked, or one whose .neo is still None because the      *)
(* constructor stopped at it.  A run follows one generator.                 *)
(***************************************************************************)
\* A faulty variant of mapping: velocity_max is paired with ge.
mappingVelocityMaxGe(approach) ==
    LET a == approaches[approach]
        neo == neos[approach_neo[approach]]
    IN  ("des" :> <<Str(a.designation), "eq">>)
     @@ ("date" :> <<date(a.time), "eq">>)
     @@ ("start_date" :> <<date(a.time), "ge">>)
     @@ ("end_date" :> <<date(a.time), "le">>)
     @@ ("distance_min" :> <<float(a.distance), "ge">>)
     @@ ("distance_max" :> <<float(a.distance), "le">>)
     @@ ("velocity_max" :> <<float(a.velocity), "ge">>)
     @@ ("velocity_min" :> <<float(a.velocity), "ge">>)
     @@ ("name" :> <<neo.name, "eq">>)
     @@ ("diameter_min" :> <<float(neo.diameter), "ge">>)
     @@ ("diameter_max" :> <<float(neo.diameter), "le">>)
     @@ ("hazardous" :> <<neo.hazardous, "eq">>)

\* The table of an approach whose .neo is set.
mapping(approach) ==
    LET a == approaches[approach]
        neo == neos[approach_neo[approach]]
    IN  ("des" :> <<Str(a.designation), "eq">>)
     @@ ("date" :> <<date(a.time), "eq">>)
     @@ ("start_date" :> <<date(a.time), "ge">>)
     @@ ("end_date" :> <<date(a.time), "le">>)
     @@ ("distance_min" :> <<float(a.distance), "ge">>)
     @@ ("distance_max" :> <<float(a.distance), "le">>)
     @@ ("velocity_max" :> <<float(a.velocity), "le">>)
     @@ ("velocity_min" :> <<float(a.velocity), "ge">>)
     @@ ("name" :> <<neo.name, "eq">>)
     @@ ("diameter_min" :> <<float(neo.diameter), "ge">>)
     @@ ("diameter_max" :> <<float(neo.diameter), "le">>)
     @@ ("hazardous" :> <<neo.hazardous, "eq">>)

\* op[1](op[0], filter_expression)
ApplyOp(op, filter_expression) ==
    CASE op[2] = "eq" -> eq(op[1], filter_expression)
      [] op[2] = "le" -> le(op[1], filter_expression)
      [] op[2] = "ge" -> ge(op[1], filter_expression)

\* The keys a caller may pass and the thresholds of each.
SourceKeys ==
    {"des", "date", "start_date", "end_date", "distance_min", "distance_max",
     "velocity_max", "velocity_min", "name", "diameter_min", "diameter_max",
     "hazardous"}

FilterKeys == SourceKeys \cup {"designation", "colour"}

Thresholds(key) ==
    CASE key \in {"des", "designation"} -> {Str("a"), Str("b")}
      [] key \in {"date", "start_date", "end_date"} -> {Date(2)}
      [] key = "name" -> {Str("X")}
      [] key = "hazardous" -> {Bool(TRUE)}
      [] OTHER -> {Flt(2)}

FilterItems ==
    UNION {{[key |-> k, value |-> v] : v \in Thresholds(k) \cup {None}} : k \in FilterKeys}

FilterDicts ==
    {f \in SeqsUpTo(FilterItems, MaxFilterKeys) :
        \A i, j \in DOMAIN f : i # j => f[i].key # f[j].key}

_check_filters ==
    /\ pc \in {"ready", "raised"}
    /\ cf.state = "none"
    /\ \E approach \in DOMAIN approaches : \E filters \in FilterDicts :
        cf' = [state |-> "created", approach |-> approach, filters |-> filters,
               pos |-> 0, out |-> <<>>]
    /\ ret' = Ret("_check_filters", None, NoneRef, "")
    /\ UNCHANGED <<neos, approaches, neo_approaches, approach_neo, name_to_neo,
                   pdes_to_neo, approach_to_des, pc, q>>

\* next() on the generator.
CheckFiltersNext ==
    /\ cf.state \in {"created", "suspended"}
    /\ IF cf.state = "created" /\ approach_neo[cf.approach] = NoneRef
       THEN /\ cf' = [cf EXCEPT !.state = "AttributeError"]
            /\ ret' = Ret("next", None, NoneRef, "AttributeError")
       ELSE IF cf.pos = Len(cf.filters)
       THEN /\ cf' = [cf EXCEPT !.state = "done"]
            /\ ret' = Ret("next", None, NoneRef, "StopIteration")
       ELSE LET key == cf.filters[cf.pos + 1].key
                filter_expression == cf.filters[cf.pos + 1].value
                table == mapping(cf.approach)
            IN  IF key \notin DOMAIN table
                THEN /\ cf' = [cf EXCEPT !.state = "KeyError"]
                     /\ ret' = Ret("next", Str(key), NoneRef, "KeyError")
                ELSE LET b == IF filter_expression = None
                              THEN TRUE
                              ELSE ApplyOp(table[key], filter_expression)
                     IN  /\ cf' = [cf EXCEPT !.state = "suspended", !.pos = @ + 1,
                                             !.out = Append(@, b)]
                         /\ ret' = Ret("next", Bool(b), NoneRef, "")
    /\ UNCHANGED <<neos, approaches, neo_approaches, approach_neo, name_to_neo,
                   pdes_to_neo, approach_to_des, pc, q>>

NextFilters ==
    \/ NEODatabase_init
    \/ _check_filters
    \/ CheckFiltersNext

SpecFilters == InitFilters /\ [][NextFilters]_vars

(***************************************************************************)
(* Properties of the constructor and the point lookups (SpecDb).           *)
(***************************************************************************)
UniqueDesignations ==
    \A i, j \in DOMAIN neos : i # j => neos[i].designation # neos[j].designation

NonEmpty(name) == name # None /\ name # Str("")

UniqueNames ==
    \A i, j \in DOMAIN neos :
        (i # j /\ NonEmpty(neos[i].name) /\ NonEmpty(neos[j].name))
            => neos[i].name # neos[j].name

ValidInput == UniqueDesignations /\ UniqueNames

Matches(e, o) == approaches[e].designation = neos[o].designation

\* The events up to and including e that share e's staging designation.
SharingUpTo(e) == {x \in 1..e : approaches[x].designation = approaches[e].designation}

Occurrences(list, e) == Cardinality({k \in DOMAIN list : list[k] = e})

Elements(list) == {list[k] : k \in DOMAIN list}

\* C1: once the constructor has returned for objects with unique
\* designations, every event whose staging designation is an object's
\* designation refers to that object and is in that object's approach list
\* exactly once, at its rank among the events sharing the designation; each
\* list holds exactly the events of its object and no event is in two lists.
C1_LinkingComplete ==
    (pc = "ready" /\ UniqueDesignations) =>
        /\ \A e \in DOMAIN approaches : \A o \in DOMAIN neos :
              Matches(e, o) =>
                  /\ approach_neo[e] = o
                  /\ Occurrences(neo_approaches[o], e) = 1
                  /\ Cardinality(SharingUpTo(e)) \in DOMAIN neo_approaches[o]
                  /\ neo_approaches[o][Cardinality(SharingUpTo(e))] = e
        /\ \A o \in DOMAIN neos :
              Elements(neo_approaches[o]) = {e \in DOMAIN approaches : Matches(e, o)}
        /\ \A o1, o2 \in DOMAIN neos :
              o1 # o2 => Elements(neo_approaches[o1]) \cap Elements(neo_approaches[o2]) = {}

\* Two objects, one of them with two approaches.
C1_Witness ==
    /\ pc = "ready"
    /\ UniqueDesignations
    /\ Len(neos) = 2
    /\ \E o \in DOMAIN neos : Len(neo_approaches[o]) = 2

\* C2: a staging designation that matches no object does not make the
\* constructor raise: it returns, the unmatched event keeps no object
\* reference and every event with a matching designation is linked.
C2_UnmatchedTolerated ==
    pc # "new" =>
        /\ pc = "ready"
        /\ \A e \in DOMAIN approaches :
              IF \E o \in DOMAIN neos : Matches(e, o)
              THEN approach_neo[e] # NoneRef /\ Matches(e, approach_neo[e])
              ELSE approach_neo[e] = NoneRef

\* C3: the name index has no entry for an absent or empty name, and
\* get_neo_by_name never returns an object whose name is absent or empty.
C3_NamelessNeverFound ==
    pc = "ready" =>
        /\ \A k \in DOMAIN name_to_neo : NonEmpty(k)
        /\ (ret.op = "get_neo_by_name" /\ ret.val # NoneRef) => NonEmpty(neos[ret.val].name)

\* C4: for a valid input, looking up an object's designation returns that
\* object, looking up an object's non-empty name returns that object, and a
\* designation or name that no object carries returns None; no lookup raises.
C4_LookupRoundTrip ==
    (pc = "ready" /\ ValidInput) =>
        /\ ret.op = "get_neo_by_designation" =>
              /\ ret.exc = ""
              /\ \A o \in DOMAIN neos :
                    Str(neos[o].designation) = ret.arg => ret.val = o
              /\ (\A o \in DOMAIN neos : Str(neos[o].designation) # ret.arg)
                    => ret.val = NoneRef
        /\ ret.op = "get_neo_by_name" =>
              /\ ret.exc = ""
              /\ \A o \in DOMAIN neos :
                    (NonEmpty(neos[o].name) /\ neos[o].name = ret.arg) => ret.val = o
              /\ (\A o \in DOMAIN neos : neos[o].name # ret.arg) => ret.val = NoneRef

\* The first of two named objects is found by its name.
C4_Witness ==
    /\ pc = "ready"
    /\ ValidInput
    /\ Len(neos) = 2
    /\ NonEmpty(neos[1].name) /\ NonEmpty(neos[2].name)
    /\ ret.op = "get_neo_by_name"
    /\ ret.arg = neos[1].name
    /\ ret.val = 1

(***************************************************************************)
(* Properties of query (Spec).                                             *)
(***************************************************************************)
Indices(n) == [k \in 1..n |-> k]

\* The approaches among the first n of the collection that satisfy every
\* predicate, in the collection's order.
Satisfying(filters, n) ==
    SelectSeq(Indices(n), LAMBDA e : \A k \in DOMAIN filters : e \in filters[k])

\* C5: what a query has yielded so far is exactly the approaches it has
\* passed that satisfy every predicate, in the collection's order and without
\* repetition; a query that ran to its end has passed the whole collection,
\* so that with no predicate at all it has yielded every approach.
C5_QueryConjunction ==
    q.state # "none" =>
        /\ q.out = Satisfying(q.filters, q.pos)
        /\ q.state = "done" => q.pos = Len(approaches)
        /\ (q.state = "done" /\ q.filters = <<>>) => q.out = Indices(Len(approaches))

\* A finished query with two predicates that kept one approach and dropped another.
C5_Witness ==
    /\ q.state = "done"
    /\ Len(q.filters) = 2
    /\ q.filters[1] # q.filters[2]
    /\ Len(q.out) = 1
    /\ Len(approaches) = 2

\* C10: once the constructor has returned, no call changes the object
\* collection, the approach collection, the indices, an object's approach
\* list or an event's object reference.
C10_ReadOnlyAfterConstruction ==
    [][pc = "ready" => UNCHANGED <<neos, approaches, name_to_neo, pdes_to_neo,
                                   approach_to_des, neo_approaches, approach_neo>>]_vars

\* A query abandoned after its first of two results.
C10_Witness ==
    /\ pc = "ready"
    /\ q.state = "closed"
    /\ Len(q.out) = 1
    /\ q.pos < Len(approaches)
    /\ q.filters = <<>>

(***************************************************************************)
(* Properties of _check_filters (SpecFilters).                             *)
(***************************************************************************)
\* The keys of the documented table, and the keys of neither table.
CanonicalKeys == (SourceKeys \ {"des"}) \cup {"designation"}
ForeignKeys == FilterKeys \ (CanonicalKeys \cup SourceKeys)

EqualsKeys == {"des", "designation", "date", "name", "hazardous"}
AtLeastKeys == {"start_date", "distance_min", "velocity_min", "diameter_min"}
AtMostKeys == {"end_date", "distance_max", "velocity_max", "diameter_max"}
ObjectKeys == {"name", "diameter_min", "diameter_max", "hazardous"}

Linked(e) == approach_neo[e] # NoneRef

\* The value the documented extractor of a key reads off a linked event.
Extracted(key, e) ==
    CASE key \in {"des", "designation"} -> Str(approaches[e].designation)
      [] key \in {"date", "start_date", "end_date"} -> Date(approaches[e].time.day)
      [] key \in {"distance_min", "distance_max"} -> approaches[e].distance
      [] key \in {"velocity_min", "velocity_max"} -> approaches[e].velocity
      [] key = "name" -> neos[approach_neo[e]].name
      [] key \in {"diameter_min", "diameter_max"} -> neos[approach_neo[e]].diameter
      [] key = "hazardous" -> neos[approach_neo[e]].hazardous

\* The documented meaning of a key for a linked event and a present
\* threshold; an unknown diameter (nan) is neither equal to, nor at least,
\* nor at most any threshold.
TableResult(key, e, t) ==
    LET v == Extracted(key, e)
    IN  /\ v.s # "nan"
        /\ CASE key \in EqualsKeys -> v = t
             [] key \in AtLeastKeys -> v.n >= t.n
             [] key \in AtMostKeys -> v.n <= t.n

\* The booleans produced for a linked event agree with a table over keys.
AgreesWithTable(keys) ==
    (cf.state # "none" /\ Linked(cf.approach)) =>
        /\ \A k \in DOMAIN cf.out :
              (cf.filters[k].key \in keys /\ cf.filters[k].value # None)
                  => cf.out[k] = TableResult(cf.filters[k].key, cf.approach,
                                             cf.filters[k].value)
        /\ cf.state = "KeyError" => cf.filters[cf.pos + 1].key \notin keys
        /\ (cf.state = "done" /\ \A k \in DOMAIN cf.filters : cf.filters[k].key \in keys)
              => Len(cf.out) = Len(cf.filters)

\* C6 as stated: every key of the documented table, "designation" among
\* them, is recognised and produces the boolean of its extractor and operator.
C6_CanonicalKeysRecognised == AgreesWithTable(CanonicalKeys)

\* C6 as amended: the same for the keys of the table in the code, where the
\* designation criterion is keyed "des".
C6_SourceKeysRecognised == AgreesWithTable(SourceKeys)

\* A designation criterion that holds, followed by an upper bound that fails.
C6_Witness ==
    /\ cf.state = "done"
    /\ Linked(cf.approach)
    /\ Len(cf.filters) = 2
    /\ cf.filters[1] = [key |-> "des", value |-> Str("a")]
    /\ cf.filters[2] = [key |-> "velocity_max", value |-> Flt(2)]
    /\ cf.out = <<TRUE, FALSE>>

HasForeignKey(filters) == \E k \in DOMAIN filters : filters[k].key \in ForeignKeys

\* C7: once a filter set with a key of no table is evaluated, the outcome is
\* the unknown-key error, before any boolean has been produced.
C7_UnknownKeyRaisedFirst ==
    (cf.state \notin {"none", "created"} /\ HasForeignKey(cf.filters)) =>
        /\ cf.state = "KeyError"
        /\ cf.out = <<>>

\* C8: for an event without object reference, evaluation does not raise and
\* every object-dependent criterion with a present threshold is false.
C8_UnlinkedNeverMatches ==
    (cf.state # "none" /\ ~Linked(cf.approach)
        /\ \A k \in DOMAIN cf.filters : cf.filters[k].key \in SourceKeys) =>
        /\ cf.state \notin {"AttributeError", "KeyError"}
        /\ \A k \in DOMAIN cf.out :
              (cf.filters[k].key \in ObjectKeys /\ cf.filters[k].value # None)
                  => cf.out[k] = FALSE

\* C9: a recognised key with an absent threshold produces true for every
\* event, linked or not, and is not skipped.
C9_AbsentThresholdTrue ==
    (cf.state # "none"
        /\ \A k \in DOMAIN cf.filters : cf.filters[k].key \in SourceKeys) =>
        /\ cf.state \notin {"AttributeError", "KeyError"}
        /\ \A k \in DOMAIN cf.out : cf.filters[k].value = None => cf.out[k] = TRUE
        /\ cf.state = "done" => Len(cf.out) = Len(cf.filters)

====
